---- MODULE Spec2Model ----
(***************************************************************************)
(* State-machine model of pytorch_lightning/utilities/auto_restart.py:     *)
(* FastForwardSampler (position tracker), CaptureIterableDataset (capture  *)
(* layer) and the worker-cycle helpers of the data loader iterator.        *)
(***************************************************************************)
EXTENDS Integers, Sequences, FiniteSets, TLC

\* ------------------------------------------------------------------ bounds
\* longest wrapped producer (number of items of self._sampler)
MaxN == 3
\* largest worker id; worker ids are 0..MaxWorker
MaxWorker == 1
\* largest dataloader batch size passed to setup
MaxBatch == 2
\* most calls of FastForwardSampler.__iter__ on one tracker
MaxPasses == 2
\* largest _num_workers of a multi-process data loader iterator
MaxNumWorkers == 4
\* most calls of convert_batch_into_state_dict on one batch
MaxCalls == 2

\* ------------------------------------------------------- python values
\* Optional[...]: None is the empty tuple, a present value v is <<v>>
None == <<>>
Some(v) == <<v>>

Workers == 0 .. MaxWorker
\* current_iteration values a caller may hand in (past the end included)
Counts == 0 .. MaxN
BatchSizes == {None} \cup {Some(b) : b \in 0 .. MaxBatch}
Overrides == {None} \cup {Some(b) : b \in 0 .. MaxN}

\* Dict[int, Dict[str, int]]: worker id -> {"current_iteration": count}
Entries == {[current_iteration |-> c] : c \in Counts}
StateDicts == UNION {[D -> Entries] : D \in SUBSET Workers}

\* the wrapped producer is deterministic: its item at position i is i
Item(i) == i
\* positions lo .. n-1 of a producer of n items, in order
ItemsFrom(lo, n) == [j \in 1 .. (IF n > lo THEN n - lo ELSE 0) |-> Item(lo + j - 1)]

VARIABLES
    N,          \* length of the wrapped producer
    ff,         \* the FastForwardSampler object (its fields)
    gen,        \* the generator made by FastForwardSampler.__iter__: pc, pos
    winfo,      \* torch get_worker_info(): None in the main process, Some(id) in a worker
    out,        \* items the current pass has delivered to the consumer
    op,         \* the last call made on the tracker, with its result
    lastLoad,   \* the last load_state_dict call made from outside, and its context
    passes,     \* number of __iter__ calls on this tracker
    life,       \* number of trackers constructed before this one
    snap,       \* the state_dict a caller kept, with the context it was taken in
    dl,         \* the data loader iterator: kind, _num_workers, cursor, resets
    wop,        \* the last worker-cycle call, with its result
    captured,   \* the cycle state a caller kept, with the cursor it was taken at
    plan,       \* the wrapped dataset: what each of its attributes is
    ds,         \* the wrapped dataset's __dict__: its iterator attributes now
    cap,        \* the CaptureIterableDataset object (its fields)
    cop,        \* the last call made on the capture layer, with its result
    pipe,       \* the DataLoader: what its sampler and its batch_sampler are
    batch,      \* the batch handed to convert_batch_into_state_dict, as it is now
    conv        \* the calls of convert_batch_into_state_dict made, with their results

ffVars == <<N, ff, gen, winfo, out, op, lastLoad, passes, life, snap>>
cycVars == <<dl, wop, captured>>
capVars == <<plan, ds, cap, cop>>
plVars == <<pipe, batch, conv>>
vars == <<ffVars, cycVars, capVars, plVars>>

\* ------------------------------------------------ FastForwardSampler
\* __init__
FFInit ==
    [restarting |-> FALSE, current_iteration |-> 0,
     dataloader_batch_size |-> None, cached_state_dict |-> None]

\* property worker_id
worker_id(wi) == IF wi = None THEN 0 ELSE wi[1]

\* a slip in _compute_current_iteration: an override count is returned unscaled
compute_current_iteration_unscaled_override(self, num_batches_processed) ==
    LET bs == self.dataloader_batch_size IN
    IF num_batches_processed # None THEN num_batches_processed[1]
    ELSE IF bs # None /\ bs[1] # 0 THEN self.current_iteration * bs[1]
    ELSE self.current_iteration

\* _compute_current_iteration
compute_current_iteration(self, num_batches_processed) ==
    LET current_iteration ==
            IF num_batches_processed # None THEN num_batches_processed[1]
            ELSE self.current_iteration
        bs == self.dataloader_batch_size
    IN  IF bs # None /\ bs[1] # 0 THEN current_iteration * bs[1] ELSE current_iteration

\* state_dict
state_dict(self, num_batches_processed, wi) ==
    worker_id(wi) :> [current_iteration |->
                        compute_current_iteration(self, num_batches_processed)]

\* a slip in load_state_dict: restarting is set whenever a count is applied
load_state_dict_always_restarting(self, sd, workers_initialized, wi) ==
    LET w == worker_id(wi) IN
    IF Cardinality(DOMAIN sd) > 1 /\ ~workers_initialized
    THEN LET cached == [self EXCEPT !.cached_state_dict = Some(sd)] IN
         IF w \in DOMAIN sd
         THEN [self |-> [cached EXCEPT !.restarting = sd[w].current_iteration >= 0],
               err |-> ""]
         ELSE [self |-> cached, err |-> "KeyError"]
    ELSE IF w \in DOMAIN sd
         THEN [self |-> [self EXCEPT !.current_iteration = sd[w].current_iteration,
                                     !.restarting = sd[w].current_iteration >= 0],
               err |-> ""]
         ELSE [self |-> self, err |-> "KeyError"]

\* a slip in load_state_dict: the count is applied on the caching path as well
load_state_dict_applies_when_cached(self, sd, workers_initialized, wi) ==
    LET w == worker_id(wi) IN
    IF w \in DOMAIN sd
    THEN [self |-> [self EXCEPT !.current_iteration = sd[w].current_iteration,
                                !.restarting = sd[w].current_iteration > 0,
                                !.cached_state_dict =
                                    IF Cardinality(DOMAIN sd) > 1 /\ ~workers_initialized
                                    THEN Some(sd) ELSE @],
          err |-> ""]
    ELSE [self |-> IF Cardinality(DOMAIN sd) > 1 /\ ~workers_initialized
                   THEN [self EXCEPT !.cached_state_dict = Some(sd)] ELSE self,
          err |-> "KeyError"]

\* load_state_dict: the tracker afterwards, and the exception raised ("" for none)
load_state_dict(self, sd, workers_initialized, wi) ==
    LET w == worker_id(wi) IN
    IF Cardinality(DOMAIN sd) > 1 /\ ~workers_initialized
    THEN LET cached == [self EXCEPT !.cached_state_dict = Some(sd)] IN
         IF w \in DOMAIN sd
         THEN [self |-> [cached EXCEPT !.restarting = sd[w].current_iteration > 0],
               err |-> ""]
         ELSE [self |-> cached, err |-> "KeyError"]
    ELSE IF w \in DOMAIN sd
         THEN [self |-> [self EXCEPT !.current_iteration = sd[w].current_iteration,
                                     !.restarting = sd[w].current_iteration > 0],
               err |-> ""]
         ELSE [self |-> self, err |-> "KeyError"]

\* one turn of the restart loop body: the cached state of this worker is applied
apply_cached(self, wi) ==
    IF self.cached_state_dict # None /\ worker_id(wi) \in DOMAIN self.cached_state_dict[1]
    THEN [load_state_dict(self, self.cached_state_dict[1], TRUE, wi).self
            EXCEPT !.cached_state_dict = None]
    ELSE self

\* a slip in the restart loop: the comparison is strict
forwards_strict(self, i) == self.current_iteration < i

\* whether the restart loop forwards the item at index i
forwards(self, i) == self.current_iteration <= i

\* a slip at the end of __iter__: the counter is not reset
exhausted_keeps_counter(self) == self

\* what the generator leaves behind when the wrapped producer is exhausted
exhausted(self) == [self EXCEPT !.current_iteration = 0]

\* the restart branch of __iter__, run from index pos until it yields or ends
RECURSIVE restart_loop(_, _, _, _)
restart_loop(self, pos, wi, n) ==
    IF pos >= n
    THEN [self |-> exhausted(self), gen |-> [pc |-> "done", pos |-> pos], yielded |-> None]
    ELSE LET s1 == apply_cached(self, wi) IN
         IF forwards(s1, pos)
         THEN [self |-> [s1 EXCEPT !.current_iteration = @ + 1],
               gen |-> [pc |-> "restart", pos |-> pos + 1],
               yielded |-> Some(Item(pos))]
         ELSE restart_loop(s1, pos + 1, wi, n)

\* a slip in the normal branch: the counter is incremented after the yield, when
\* the generator is resumed for the following item
normal_loop_counts_late(self, pos, n) ==
    IF pos >= n
    THEN [self |-> exhausted(self), gen |-> [pc |-> "done", pos |-> pos], yielded |-> None]
    ELSE [self |-> IF pos = 0 THEN self ELSE [self EXCEPT !.current_iteration = @ + 1],
          gen |-> [pc |-> "normal", pos |-> pos + 1],
          yielded |-> Some(Item(pos))]

\* the normal branch of __iter__, resumed once
normal_loop(self, pos, n) ==
    IF pos >= n
    THEN [self |-> exhausted(self), gen |-> [pc |-> "done", pos |-> pos], yielded |-> None]
    ELSE [self |-> [self EXCEPT !.current_iteration = @ + 1],
          gen |-> [pc |-> "normal", pos |-> pos + 1],
          yielded |-> Some(Item(pos))]

\* the branch a generator takes when it is first resumed
branch(self) == IF self.restarting THEN "restart" ELSE "normal"

\* a slip in __iter__: the restarting flag is not looked at
iter_next_always_normal(self, g, wi, n) ==
    normal_loop(self, g.pos, n)

\* next() on the generator of __iter__
iter_next(self, g, wi, n) ==
    LET pc == IF g.pc = "created" THEN branch(self) ELSE g.pc IN
    IF pc = "normal" THEN normal_loop(self, g.pos, n)
    ELSE restart_loop(self, g.pos, wi, n)

\* ------------------------------------------------------------ tracker actions
NoOp == [name |-> "init"]
NoSnap == [taken |-> FALSE]
\* the attribute names of the wrapped dataset, in the order of its __dict__
NameSeq == <<"a", "b">>
Names == {NameSeq[i] : i \in 1 .. Len(NameSeq)}
\* a dataset attribute that is no iterator
NoAttribute == [kind |-> "absent", pos |-> 0]
NoDataset == [name \in Names |-> "absent"]
\* CaptureIterableDataset.__init__
CaptureInit == [state_dict |-> None, samplers |-> None, iterating |-> FALSE,
                created |-> 0, passes |-> 0, loads |-> 0, first_keys |-> None,
                produced |-> 0]
\* no data loader iterator has been made
NoIterator == [multi |-> FALSE, num_workers |-> 0, cursor |-> 0, resets |-> 0,
               last_reset |-> None]

\* no DataLoader has been built
NoLoader == [sampler |-> "None", batch_sampler |-> "None"]

InitFF ==
    /\ N \in 0 .. MaxN
    /\ ff = FFInit
    /\ gen = [pc |-> "none", pos |-> 0]
    /\ winfo = None
    /\ out = <<>>
    /\ op = NoOp
    /\ lastLoad = None
    /\ passes = 0
    /\ life = 0
    /\ snap = NoSnap
    /\ dl = NoIterator
    /\ wop = NoOp
    /\ captured = None
    /\ plan = NoDataset
    /\ ds = [name \in Names |-> NoAttribute]
    /\ cap = CaptureInit
    /\ cop = NoOp
    /\ pipe = NoLoader
    /\ batch = None
    /\ conv = <<>>

\* setup(dataloader_batch_size)
Setup(b) ==
    /\ ff' = [ff EXCEPT !.dataloader_batch_size = b]
    /\ op' = [name |-> "setup"]
    /\ UNCHANGED <<N, gen, winfo, out, lastLoad, passes, life, snap>>
    /\ UNCHANGED <<cycVars, capVars, plVars>>

\* the tracker is copied into worker process w before it is iterated there:
\* get_worker_info() now answers w
Fork(w) ==
    /\ winfo = None
    /\ gen.pc = "none"
    /\ winfo' = Some(w)
    /\ op' = [name |-> "fork"]
    /\ UNCHANGED <<N, ff, gen, out, lastLoad, passes, life, snap>>
    /\ UNCHANGED <<cycVars, capVars, plVars>>

\* load_state_dict called from outside the tracker: a tracker is restored at most
\* once, before its first pass has produced anything (restore precedes iteration)
Load(sd, workers_initialized) ==
    LET r == load_state_dict(ff, sd, workers_initialized, winfo) IN
    /\ lastLoad = None
    /\ gen.pc \in {"none", "created"}
    /\ ff' = r.self
    /\ op' = [name |-> "load_state_dict", err |-> r.err]
    /\ lastLoad' = Some([state |-> sd, workers_initialized |-> workers_initialized,
                         winfo |-> winfo, passes |-> passes])
    /\ UNCHANGED <<N, gen, winfo, out, passes, life, snap>>
    /\ UNCHANGED <<cycVars, capVars, plVars>>

\* state_dict(num_batches_processed)
StateDict(nbp) ==
    /\ op' = [name |-> "state_dict", num_batches_processed |-> nbp,
              ret |-> state_dict(ff, nbp, winfo)]
    /\ UNCHANGED <<N, ff, gen, winfo, out, lastLoad, passes, life, snap>>
    /\ UNCHANGED <<cycVars, capVars, plVars>>

\* __iter__(): a new generator over a fresh iteration of the wrapped producer; the
\* caller starts a new pass only when the tracker has no unfinished one
Iter ==
    /\ passes < MaxPasses
    /\ gen.pc \in {"none", "done"}
    /\ gen' = [pc |-> "created", pos |-> 0]
    /\ out' = <<>>
    /\ passes' = passes + 1
    /\ op' = [name |-> "iter"]
    /\ UNCHANGED <<N, ff, winfo, lastLoad, life, snap>>
    /\ UNCHANGED <<cycVars, capVars, plVars>>

\* next() on the generator
Next_ ==
    /\ gen.pc \in {"created", "normal", "restart"}
    /\ LET r == iter_next(ff, gen, winfo, N) IN
        /\ ff' = r.self
        /\ gen' = r.gen
        /\ out' = IF r.yielded = None THEN out ELSE Append(out, r.yielded[1])
        /\ op' = [name |-> "next", yielded |-> r.yielded]
    /\ UNCHANGED <<N, winfo, lastLoad, passes, life, snap>>
    /\ UNCHANGED <<cycVars, capVars, plVars>>

\* the tracker under restore and iteration
NextFF ==
    \/ \E w \in Workers : Fork(w)
    \/ \E sd \in StateDicts, wi \in BOOLEAN : Load(sd, wi)
    \/ Iter
    \/ Next_

SpecFF == InitFF /\ [][NextFF]_vars

\* the tracker under setup, iteration and snapshots
NextSD ==
    \/ \E b \in BatchSizes : Setup(b)
    \/ \E w \in Workers : Fork(w)
    \/ \E nbp \in Overrides : StateDict(nbp)
    \/ Iter
    \/ Next_

SpecSD == InitFF /\ [][NextSD]_vars

\* the caller keeps the state_dict it was just handed
Keep ==
    /\ op.name = "state_dict"
    /\ life = 0
    /\ snap' = [taken |-> TRUE, state |-> op.ret,
                override |-> op.num_batches_processed,
                counter |-> ff.current_iteration,
                batch_size |-> ff.dataloader_batch_size,
                delivered |-> Len(out), pc |-> gen.pc, passes |-> passes,
                winfo |-> winfo]
    /\ op' = [name |-> "keep"]
    /\ UNCHANGED <<N, ff, gen, winfo, out, lastLoad, passes, life>>
    /\ UNCHANGED <<cycVars, capVars, plVars>>

\* a fresh FastForwardSampler is constructed over an equivalent fresh producer, in
\* a process that has not been given a worker identity yet
Construct ==
    /\ life = 0
    /\ snap.taken
    /\ ff' = FFInit
    /\ gen' = [pc |-> "none", pos |-> 0]
    /\ winfo' = None
    /\ out' = <<>>
    /\ lastLoad' = None
    /\ passes' = 0
    /\ life' = life + 1
    /\ op' = [name |-> "construct"]
    /\ UNCHANGED <<N, snap>>
    /\ UNCHANGED <<cycVars, capVars, plVars>>

\* snapshot on one tracker, restore on a fresh one: the first tracker is set up
\* and iterated until its state is kept, the fresh one is restored and iterated
NextRT ==
    \/ life = 0 /\ ~snap.taken /\ \E b \in BatchSizes : Setup(b)
    \/ (life = 1 \/ ~snap.taken) /\ \E w \in Workers : Fork(w)
    \/ life = 0 /\ ~snap.taken /\ StateDict(None)
    \/ Keep
    \/ Construct
    \/ life = 1 /\ Load(snap.state, FALSE)
    \/ (life = 1 \/ ~snap.taken) /\ Iter
    \/ (life = 1 \/ ~snap.taken) /\ Next_

SpecRT == InitFF /\ [][NextRT]_vars

\* load_state_dict called from outside at any moment of the tracker's life
LoadAny(sd, workers_initialized) ==
    LET r == load_state_dict(ff, sd, workers_initialized, winfo) IN
    /\ ff' = r.self
    /\ op' = [name |-> "load_state_dict", err |-> r.err]
    /\ lastLoad' = Some([state |-> sd, workers_initialized |-> workers_initialized,
                         winfo |-> winfo, passes |-> passes,
                         count |-> IF lastLoad = None THEN 1 ELSE 2])
    /\ UNCHANGED <<N, gen, winfo, out, passes, life, snap>>
    /\ UNCHANGED <<cycVars, capVars, plVars>>

\* the states a tracker's state_dict returns: the count of one worker
OneWorkerStates == {w :> [current_iteration |-> c] : w \in Workers, c \in Counts}

\* the tracker restored at any moment, before, during or after its first pass; a
\* second restore is made only while a cached state is waiting, and with the
\* state of one worker
NextLoad ==
    \/ \E w \in Workers : Fork(w)
    \/ lastLoad = None /\ \E sd \in StateDicts, wi \in BOOLEAN : LoadAny(sd, wi)
    \/ /\ lastLoad # None
       /\ ff.cached_state_dict # None
       /\ IF lastLoad # None THEN lastLoad[1].count = 1 ELSE FALSE
       /\ \E sd \in OneWorkerStates, wi \in BOOLEAN : LoadAny(sd, wi)
    \/ passes = 0 /\ Iter
    \/ Next_

SpecLoad == InitFF /\ [][NextLoad]_vars

\* the tracker set up, restored before its first pass, iterated once and asked for
\* its state
NextPos ==
    \/ \E b \in BatchSizes : Setup(b)
    \/ \E w \in Workers : Fork(w)
    \/ lastLoad = None /\ gen.pc \in {"none", "created"}
          /\ \E sd \in StateDicts, wi \in BOOLEAN : Load(sd, wi)
    \/ StateDict(None)
    \/ passes = 0 /\ Iter
    \/ Next_

SpecPos == InitFF /\ [][NextPos]_vars

\* ------------------------------------------------------ worker-cycle helpers
\* next(iter._worker_queue_idx_cycle), an itertools.cycle over range(n): the index
\* handed out and the cursor afterwards
cycle_next(c, n) == [value |-> c, cursor |-> (c + 1) % n]

\* `while next(iter._worker_queue_idx_cycle) != target: pass`, started with the
\* cursor at c after `steps` earlier calls of next
RECURSIVE advance_until(_, _, _, _)
advance_until(c, target, n, steps) ==
    LET r == cycle_next(c, n) IN
    IF r.value = target THEN [cursor |-> r.cursor, steps |-> steps + 1]
    ELSE advance_until(r.cursor, target, n, steps + 1)

\* `for _ in range(k): next(iter._worker_queue_idx_cycle)`
advance_by(c, k, n) == IF k > 0 THEN (c + k) % n ELSE c

\* a slip in fetch_previous_worker_state_dict: one worker is taken for no rotation
fetch_single_worker_none(it) ==
    IF it.multi /\ it.num_workers > 1
    THEN LET n == it.num_workers
             first == cycle_next(it.cursor, n)
             previous_worker == ((first.value % n) - 1) % n
             r == advance_until(first.cursor, previous_worker, n, 1)
         IN  [it |-> [it EXCEPT !.cursor = r.cursor], steps |-> r.steps,
              entry |-> [num_workers |-> n, previous_worker |-> Some(previous_worker)]]
    ELSE [it |-> it, steps |-> 0,
          entry |-> [num_workers |-> it.num_workers, previous_worker |-> None]]

\* a slip in fetch_previous_worker_state_dict: the loop runs until the cursor
\* returns next_worker again
fetch_until_next_worker(it) ==
    IF it.multi
    THEN LET n == it.num_workers
             first == cycle_next(it.cursor, n)
             next_worker == first.value % n
             previous_worker == (next_worker - 1) % n
             r == advance_until(first.cursor, next_worker, n, 1)
         IN  [it |-> [it EXCEPT !.cursor = r.cursor], steps |-> r.steps,
              entry |-> [num_workers |-> n, previous_worker |-> Some(previous_worker)]]
    ELSE [it |-> it, steps |-> 0,
          entry |-> [num_workers |-> it.num_workers, previous_worker |-> None]]

\* a slip in fetch_previous_worker_state_dict: the worker asked next is recorded
fetch_records_next_worker(it) ==
    IF it.multi
    THEN LET n == it.num_workers
             first == cycle_next(it.cursor, n)
             next_worker == first.value % n
             previous_worker == (next_worker - 1) % n
             r == advance_until(first.cursor, previous_worker, n, 1)
         IN  [it |-> [it EXCEPT !.cursor = r.cursor], steps |-> r.steps,
              entry |-> [num_workers |-> n, previous_worker |-> Some(next_worker)]]
    ELSE [it |-> it, steps |-> 0,
          entry |-> [num_workers |-> it.num_workers, previous_worker |-> None]]

\* fetch_previous_worker_state_dict: the iterator afterwards, the calls of next made
\* on the cursor, and the entry appended to out
fetch_previous_worker_state_dict(it) ==
    IF it.multi
    THEN LET n == it.num_workers
             first == cycle_next(it.cursor, n)
             next_worker == first.value % n
             previous_worker == (next_worker - 1) % n
             r == advance_until(first.cursor, previous_worker, n, 1)
         IN  [it |-> [it EXCEPT !.cursor = r.cursor], steps |-> r.steps,
              entry |-> [num_workers |-> n, previous_worker |-> Some(previous_worker)]]
    ELSE [it |-> it, steps |-> 0,
          entry |-> [num_workers |-> it.num_workers, previous_worker |-> None]]

\* iter._reset(loader, first_iter): the reset entry point of the loader's iterator,
\* recorded with the cursor position it was triggered at
reset(it, first_iter) ==
    [it EXCEPT !.resets = @ + 1,
               !.last_reset = Some([first_iter |-> first_iter, cursor |-> it.cursor])]

\* a slip in cycle_to_next_worker: the worker count is checked after the rotation
cycle_to_next_worker_late_assert(it, current) ==
    LET n == it.num_workers
        r0 == advance_until(it.cursor, 0, n, 0)
        pw == current.previous_worker
        moved == [it EXCEPT !.cursor = advance_by(r0.cursor, pw[1] - 1, n)]
    IN  IF ~it.multi \/ pw = None \/ ~current.loader
        THEN [it |-> it, steps |-> 0,
              err |-> IF current.num_workers # n THEN "AssertionError" ELSE ""]
        ELSE IF current.num_workers # n
        THEN [it |-> moved, err |-> "AssertionError", steps |-> r0.steps]
        ELSE [it |-> reset(moved, TRUE), err |-> "", steps |-> r0.steps]

\* a slip in cycle_to_next_worker: the cursor is not moved back to 0 first
cycle_to_next_worker_no_rewind(it, current) ==
    LET n == it.num_workers IN
    IF current.num_workers # n
    THEN [it |-> it, err |-> "AssertionError", steps |-> 0]
    ELSE IF ~it.multi
    THEN [it |-> it, err |-> "", steps |-> 0]
    ELSE LET pw == current.previous_worker IN
         IF pw = None
         THEN [it |-> it, err |-> "TypeError", steps |-> 0]
         ELSE LET k == IF pw[1] - 1 > 0 THEN pw[1] - 1 ELSE 0
                  moved == [it EXCEPT !.cursor = advance_by(it.cursor, pw[1] - 1, n)]
              IN  IF ~current.loader
                  THEN [it |-> moved, err |-> "KeyError", steps |-> k]
                  ELSE [it |-> reset(moved, TRUE), err |-> "", steps |-> k]

\* cycle_to_next_worker with current = state_dict[count]: the iterator afterwards, the
\* exception raised ("" for none) and the calls of next made on the cursor
cycle_to_next_worker(it, current) ==
    LET n == it.num_workers IN
    IF current.num_workers # n
    THEN [it |-> it, err |-> "AssertionError", steps |-> 0]
    ELSE IF ~it.multi
    THEN [it |-> it, err |-> "", steps |-> 0]
    ELSE LET r0 == advance_until(it.cursor, 0, n, 0)
             at0 == [it EXCEPT !.cursor = r0.cursor]
             pw == current.previous_worker
         IN  IF pw = None
             THEN [it |-> at0, err |-> "TypeError", steps |-> r0.steps]
             ELSE LET k == IF pw[1] - 1 > 0 THEN pw[1] - 1 ELSE 0
                      moved == [at0 EXCEPT !.cursor = advance_by(r0.cursor, pw[1] - 1, n)]
                  IN  IF ~current.loader
                      THEN [it |-> moved, err |-> "KeyError", steps |-> r0.steps + k]
                      ELSE [it |-> reset(moved, TRUE), err |-> "",
                            steps |-> r0.steps + k]

\* the entries a caller may hand to cycle_to_next_worker: num_workers,
\* previous_worker, and whether the key "loader" is present
CycleStates ==
    {[num_workers |-> n, previous_worker |-> pw, loader |-> b] :
        n \in 0 .. MaxNumWorkers,
        pw \in {None} \cup {Some(w) : w \in 0 .. (MaxNumWorkers - 1)},
        b \in BOOLEAN}

\* a data loader iterator is made: a _MultiProcessingDataLoaderIter over n >= 1
\* workers, or a single-process iterator (_num_workers = 0)
NewIterator(multi, n) ==
    /\ IF multi THEN n >= 1 ELSE n = 0
    /\ dl' = [multi |-> multi, num_workers |-> n, cursor |-> 0, resets |-> 0,
              last_reset |-> None]
    /\ wop' = [name |-> "new"]
    /\ UNCHANGED <<ffVars, captured>>
    /\ UNCHANGED <<capVars, plVars>>

\* the loader hands an index batch to the next worker: one next on the cursor
Dispatch ==
    /\ dl.multi
    /\ dl' = [dl EXCEPT !.cursor = cycle_next(dl.cursor, dl.num_workers).cursor]
    /\ wop' = [name |-> "dispatch"]
    /\ UNCHANGED <<ffVars, captured>>
    /\ UNCHANGED <<capVars, plVars>>

\* fetch_previous_worker_state_dict(iter, out) on a fresh list out
Fetch ==
    LET r == fetch_previous_worker_state_dict(dl) IN
    /\ dl' = r.it
    /\ wop' = [name |-> "fetch", before |-> dl, steps |-> r.steps, entry |-> r.entry]
    /\ captured' = Some([entry |-> r.entry, next |-> dl.cursor, multi |-> dl.multi])
    /\ UNCHANGED ffVars
    /\ UNCHANGED <<capVars, plVars>>

\* cycle_to_next_worker(iter, [current], 0); an iterator is reset by it at most once
Cycle(current) ==
    LET r == cycle_to_next_worker(dl, current) IN
    /\ dl.resets = 0
    /\ current.previous_worker # None => current.previous_worker[1] < current.num_workers
    /\ dl' = r.it
    /\ wop' = [name |-> "cycle", before |-> dl, target |-> current, err |-> r.err,
               steps |-> r.steps]
    /\ UNCHANGED <<ffVars, captured>>
    /\ UNCHANGED <<capVars, plVars>>

InitCycle == InitFF /\ N = 0

NextCycle ==
    \/ \E multi \in BOOLEAN, n \in 0 .. MaxNumWorkers : NewIterator(multi, n)
    \/ Dispatch
    \/ Fetch
    \/ \E current \in CycleStates : Cycle(current)

SpecCycle == InitCycle /\ [][NextCycle]_vars

\* ------------------------------------------------ CaptureIterableDataset
\* what an attribute of the wrapped dataset holds once the dataset's __iter__ has
\* run: nothing iterable, a generator made by one of the dataset's samplers, a
\* generator of another origin, or an iterator that is no generator (legacy)
Kinds == {"absent", "sampler_gen", "other_gen", "legacy"}
Datasets == [Names -> Kinds]

\* Dict[str, Dict[int, Dict[str, int]]] as _sanetize_batch_from_sampler_state
\* builds it: per attribute name, the count of the one worker the batch came from
CapStates ==
    UNION {[D -> {w :> [current_iteration |-> c] : c \in Counts}] :
              D \in SUBSET Names, w \in Workers}

\* iter(self.dataset): the wrapped dataset's __iter__ makes its iterators anew
dataset_iter(p) ==
    [name \in Names |-> IF p[name] = "absent" THEN NoAttribute
                        ELSE [kind |-> p[name], pos |-> 0]]

\* the tracker is stored and the attribute replaced by the tracker's generator
store(c, d, name, sampler) ==
    [cap |-> [c EXCEPT !.samplers =
                 Some(@[1] @@ (name :> [sampler EXCEPT !.gen = [pc |-> "created", pos |-> 0]]))],
     ds |-> [d EXCEPT ![name] = [kind |-> "wrapped", pos |-> 0]],
     err |-> ""]

\* one turn of the loop of _wrap_generator_samplers, for the attribute name
wrap_one(c, d, name, wi) ==
    IF d[name].kind \notin {"sampler_gen", "legacy"}
    THEN [cap |-> c, ds |-> d, err |-> ""]
    ELSE LET sampler == [oid |-> c.created + 1, ff |-> FFInit,
                         gen |-> [pc |-> "none", pos |-> 0]]
             made == [c EXCEPT !.created = @ + 1]
         IN  IF c.state_dict = None THEN store(made, d, name, sampler)
             ELSE IF name \notin DOMAIN c.state_dict[1]
                  THEN [cap |-> made, ds |-> d, err |-> "KeyError"]
                  ELSE LET r == load_state_dict(FFInit, c.state_dict[1][name], FALSE, wi)
                       IN  IF r.err # "" THEN [cap |-> made, ds |-> d, err |-> r.err]
                           ELSE store(made, d, name, [sampler EXCEPT !.ff = r.self])

\* the loop of _wrap_generator_samplers from the i-th attribute on, and the reset
\* of the stored state that follows it
RECURSIVE wrap_from(_, _, _, _)
wrap_from(i, c, d, wi) ==
    IF i > Len(NameSeq)
    THEN [cap |-> [c EXCEPT !.state_dict = None], ds |-> d, err |-> ""]
    ELSE LET r == wrap_one(c, d, NameSeq[i], wi) IN
         IF r.err # "" THEN r ELSE wrap_from(i + 1, r.cap, r.ds, wi)

\* a slip in _wrap_generator_samplers: the early return is missing
wrap_generator_samplers_rewrap(c, d, wi) ==
    wrap_from(1, [c EXCEPT !.samplers = Some(<<>>)], d, wi)

\* _wrap_generator_samplers
wrap_generator_samplers(c, d, wi) ==
    IF c.samplers # None THEN [cap |-> c, ds |-> d, err |-> ""]
    ELSE wrap_from(1, [c EXCEPT !.samplers = Some(<<>>)], d, wi)

\* next(self.iter_data): the wrapped dataset draws one item from each of its
\* iterators, in attribute order; the first exhausted one ends the iteration
RECURSIVE dataset_next(_, _, _, _, _, _)
dataset_next(i, d, S, wi, n, data) ==
    IF i > Len(NameSeq) THEN [ds |-> d, samplers |-> S, stop |-> FALSE, data |-> data]
    ELSE LET name == NameSeq[i] IN
         IF d[name].kind = "absent" THEN dataset_next(i + 1, d, S, wi, n, data)
         ELSE IF d[name].kind = "wrapped"
         THEN LET r == iter_next(S[name].ff, S[name].gen, wi, n)
                  S1 == [S EXCEPT ![name].ff = r.self, ![name].gen = r.gen]
              IN  IF r.yielded = None
                  THEN [ds |-> d, samplers |-> S1, stop |-> TRUE, data |-> data]
                  ELSE dataset_next(i + 1, d, S1, wi, n, Append(data, r.yielded[1]))
         ELSE IF d[name].pos >= n
              THEN [ds |-> d, samplers |-> S, stop |-> TRUE, data |-> data]
              ELSE dataset_next(i + 1, [d EXCEPT ![name].pos = @ + 1], S, wi, n,
                                Append(data, Item(d[name].pos)))

\* the samplers state_dict __next__ attaches to an item
snapshot(S, wi) ==
    ("id" :> worker_id(wi)) @@ [k \in DOMAIN S |-> state_dict(S[k].ff, None, wi)]

\* a CaptureIterableDataset constructed over a dataset, not yet iterated
InitCapture ==
    /\ N \in 0 .. MaxN
    /\ plan \in Datasets
    /\ ff = FFInit
    /\ gen = [pc |-> "none", pos |-> 0]
    /\ winfo = None
    /\ out = <<>>
    /\ op = NoOp
    /\ lastLoad = None
    /\ passes = 0
    /\ life = 0
    /\ snap = NoSnap
    /\ dl = NoIterator
    /\ wop = NoOp
    /\ captured = None
    /\ ds = [name \in Names |-> NoAttribute]
    /\ cap = CaptureInit
    /\ cop = NoOp
    /\ pipe = NoLoader
    /\ batch = None
    /\ conv = <<>>

\* CaptureIterableDataset.load_state_dict(state_dict), called at most once, before
\* the first pass or between two passes
CapLoad(sd) ==
    /\ cap.loads = 0
    /\ ~cap.iterating
    /\ cap' = [cap EXCEPT !.state_dict = Some(sd), !.loads = @ + 1]
    /\ cop' = [name |-> "load_state_dict"]
    /\ UNCHANGED <<ffVars, cycVars, plVars, plan, ds>>

\* CaptureIterableDataset.reset_on_epoch(); with nothing stored it changes nothing
CapReset ==
    /\ cap.state_dict # None
    /\ cap' = [cap EXCEPT !.state_dict = None]
    /\ cop' = [name |-> "reset_on_epoch"]
    /\ UNCHANGED <<ffVars, cycVars, plVars, plan, ds>>

\* CaptureIterableDataset.__iter__(): iter_data is assigned before discovery runs,
\* so it is in place even when discovery raises
CapIter ==
    LET r == wrap_generator_samplers(cap, dataset_iter(plan), winfo) IN
    /\ cap.passes < MaxPasses
    /\ cap' = [r.cap EXCEPT !.iterating = TRUE, !.passes = @ + 1, !.produced = 0]
    /\ ds' = r.ds
    /\ cop' = [name |-> "iter", err |-> r.err, loaded |-> cap.state_dict,
               first |-> cap.samplers = None]
    /\ UNCHANGED <<ffVars, cycVars, plVars, plan>>

\* CaptureIterableDataset.__next__(); a consumer stops asking after StopIteration;
\* the items of the pass are counted up to MaxN (a dataset without iterators never
\* ends)
CapNext ==
    LET r == dataset_next(1, ds, cap.samplers[1], winfo, N, <<>>)
        sd == snapshot(r.samplers, winfo)
    IN
    /\ cap.iterating
    /\ ds' = r.ds
    /\ cap' = [cap EXCEPT !.samplers = Some(r.samplers),
                          !.iterating = ~r.stop,
                          !.produced = IF r.stop \/ @ >= MaxN THEN @ ELSE @ + 1,
                          !.first_keys = IF r.stop \/ @ # None THEN @
                                         ELSE Some(DOMAIN sd)]
    /\ cop' = IF r.stop THEN [name |-> "next", stop |-> TRUE]
              ELSE [name |-> "next", stop |-> FALSE, data |-> r.data, samplers |-> sd]
    /\ UNCHANGED <<ffVars, cycVars, plVars, plan>>

\* the capture layer under restore and iteration; the dataset reaches its worker
\* process before it is iterated there
NextCapture ==
    \/ cap.passes = 0 /\ \E w \in Workers : Fork(w)
    \/ \E sd \in CapStates : CapLoad(sd)
    \/ CapReset
    \/ CapIter
    \/ CapNext

SpecCapture == InitCapture /\ [][NextCapture]_vars

\* ------------------------------------------------------------ DataLoader
\* a DataLoader always has a sampler and may have a batch_sampler; the tracker ff
\* is the one FastForwardSampler there is, so at most one of the two is it
Loaders ==
    {l \in [sampler : {"FastForwardSampler", "Sampler"},
            batch_sampler : {"FastForwardSampler", "Sampler", "None"}] :
        ~(l.sampler = "FastForwardSampler" /\ l.batch_sampler = "FastForwardSampler")}

\* List[Dict[str, Any]] as dataloader_to_state_dict returns it, or cut short: no
\* element, or one that lacks the key "sampler" or has under it what the state_dict
\* of a tracker returns, the count of one worker
StateLists ==
    {<<>>} \cup {<<[sampler |-> e]>> :
                    e \in {None} \cup {Some(sd) : sd \in OneWorkerStates}}

\* find_fast_forward_samplers: the attribute that holds the tracker, or None
find_fast_forward_samplers(dataloader) ==
    IF dataloader.sampler = "FastForwardSampler" THEN Some("sampler")
    ELSE IF dataloader.batch_sampler = "FastForwardSampler" THEN Some("batch_sampler")
    ELSE None

\* a slip in dataloader_load_state_dict: the state is read before the tracker is
\* looked for, as fast_forward_sampler_load_state_dict does
dataloader_load_state_dict_eager(dataloader, self, sl, wi) ==
    IF Len(sl) = 0 THEN [self |-> self, err |-> "IndexError", loaded |-> FALSE]
    ELSE IF sl[1].sampler = None THEN [self |-> self, err |-> "KeyError", loaded |-> FALSE]
    ELSE IF find_fast_forward_samplers(dataloader) = None
    THEN [self |-> self, err |-> "", loaded |-> FALSE]
    ELSE LET r == load_state_dict(self, sl[1].sampler[1], FALSE, wi) IN
         [self |-> r.self, err |-> r.err, loaded |-> TRUE]

\* dataloader_load_state_dict: the tracker afterwards, the exception raised ("" for
\* none) and whether the tracker's load_state_dict was called
dataloader_load_state_dict(dataloader, self, sl, wi) ==
    IF find_fast_forward_samplers(dataloader) = None
    THEN [self |-> self, err |-> "", loaded |-> FALSE]
    ELSE IF Len(sl) = 0 THEN [self |-> self, err |-> "IndexError", loaded |-> FALSE]
    ELSE IF sl[1].sampler = None THEN [self |-> self, err |-> "KeyError", loaded |-> FALSE]
    ELSE LET r == load_state_dict(self, sl[1].sampler[1], FALSE, wi) IN
         [self |-> r.self, err |-> r.err, loaded |-> TRUE]

\* fetch_fast_forward_samplers_state_dict(dataloader, out, 0): the list out afterwards
fetch_fast_forward_samplers_state_dict(dataloader, self, out_, wi) ==
    IF find_fast_forward_samplers(dataloader) = None THEN out_
    ELSE LET sd == state_dict(self, None, wi) IN
         IF Len(out_) = 0 THEN <<[sampler |-> Some(sd)]>>
         ELSE [out_ EXCEPT ![1] = [sampler |-> Some(sd)] @@ @]

\* dataloader_to_state_dict(dataloader, iter): the iterator afterwards and the list
dataloader_to_state_dict(dataloader, self, it, wi) ==
    LET r == fetch_previous_worker_state_dict(it)
        out0 == IF it = NoIterator THEN <<>> ELSE <<r.entry>>
    IN  [it |-> IF it = NoIterator THEN it ELSE r.it,
         ret |-> fetch_fast_forward_samplers_state_dict(dataloader, self, out0, wi)]

\* DataLoader(...): a loader is built, over the tracker or over plain samplers
MakeLoader(l) ==
    /\ pipe = NoLoader
    /\ pipe' = l
    /\ op' = [name |-> "DataLoader"]
    /\ UNCHANGED <<N, ff, gen, winfo, out, lastLoad, passes, life, snap>>
    /\ UNCHANGED <<cycVars, capVars, batch, conv>>

\* dataloader_load_state_dict(dataloader, state_dict); the tracker is restored at
\* most once, before its first pass has produced anything
PipeLoad(sl) ==
    LET r == dataloader_load_state_dict(pipe, ff, sl, winfo) IN
    /\ pipe # NoLoader
    /\ lastLoad = None
    /\ gen.pc \in {"none", "created"}
    /\ ff' = r.self
    /\ op' = [name |-> "dataloader_load_state_dict", err |-> r.err, state_list |-> sl]
    /\ lastLoad' = IF r.loaded
                   THEN Some([state |-> sl[1].sampler[1], workers_initialized |-> FALSE,
                              winfo |-> winfo, passes |-> passes])
                   ELSE lastLoad
    /\ UNCHANGED <<N, gen, winfo, out, passes, life, snap>>
    /\ UNCHANGED <<cycVars, capVars, plVars>>

\* dataloader_to_state_dict(dataloader, iter)
PipeStateDict ==
    LET r == dataloader_to_state_dict(pipe, ff, dl, winfo) IN
    /\ pipe # NoLoader
    /\ dl' = r.it
    /\ op' = [name |-> "dataloader_to_state_dict", ret |-> r.ret]
    /\ UNCHANGED <<N, ff, gen, winfo, out, lastLoad, passes, life, snap>>
    /\ UNCHANGED <<wop, captured, capVars, plVars>>

\* a loader under restore, capture and iteration of its tracker
NextPipe ==
    \/ \E l \in Loaders : MakeLoader(l)
    \/ \E multi \in BOOLEAN, n \in 0 .. 2 : pipe # NoLoader /\ dl = NoIterator /\ NewIterator(multi, n)
    \/ \E sl \in StateLists : PipeLoad(sl)
    \/ PipeStateDict
    \/ pipe # NoLoader /\ Iter
    \/ pipe # NoLoader /\ Next_

SpecPipe == InitFF /\ [][NextPipe]_vars

\* ------------------------------------------------------------ batches
\* AutoRestartBatchKeys.PL_SAMPLERS
PL_SAMPLERS == "__pl_samplers"

\* composite values: a leaf, a sequence-like value (list, tuple, namedtuple,
\* dataclass) with its items, a Mapping with its keys in order and their values,
\* and the samplers state_dict found under PL_SAMPLERS
Leaf(x) == [t |-> "leaf", v |-> x]
SeqOf(items) == [t |-> "seq", items |-> items]
MapOf(keys, vals) == [t |-> "map", keys |-> keys, vals |-> vals]

\* the last element of a non-empty sequence: tensor[-1].item()
Last(q) == q[Len(q)]

\* the collated state_dicts of __next__ for a batch of one or two items that
\* worker w made: "id" holds w per item, each wrapped attribute name the counts
\* of its tracker per item, one after the other
CollatedStates ==
    UNION {{[t |-> "samplers", id |-> Some([i \in 1 .. len |-> w]), states |-> st] :
               st \in [D -> {w :> [current_iteration |-> [i \in 1 .. len |-> c + i]] :
                               c \in 0 .. (MaxN - 1)}]} :
              D \in SUBSET Names, w \in Workers, len \in 1 .. 2}

\* what CaptureIterableDataset.__next__ returns, collated
Collated(m) == MapOf(<<"data", PL_SAMPLERS>>, <<Leaf(0), m>>)

\* the batches handed to convert_batch_into_state_dict
Batches ==
    {Leaf(0)}
    \cup {Collated(m) : m \in CollatedStates}
    \cup {SeqOf(<<Collated(m), Leaf(1)>>) : m \in CollatedStates}
    \cup {SeqOf(<<Collated(m), Collated(m)>>) : m \in CollatedStates}
    \cup {MapOf(<<"x", "y">>, <<Collated(m), Leaf(1)>>) : m \in CollatedStates}

\* the state extracted from the samplers state_dict v, its "id" already popped
\* as worker id w
extract(v, w) ==
    [name \in DOMAIN v.states |->
        w :> [current_iteration |-> Last(v.states[name][w].current_iteration)]]

\* _sanetize_batch_from_sampler_state(data, state_dict): the value returned (None
\* when an exception is raised), the value data is afterwards, the list
\* state_dict afterwards, and the exception ("" for none)
RECURSIVE sanetize(_, _)
RECURSIVE sanetize_mapping(_, _, _, _)
RECURSIVE sanetize_sequence(_, _, _, _)
sanetize(data, sl) ==
    IF data.t = "map" THEN sanetize_mapping(data, 1, <<>>, sl)
    ELSE IF data.t = "seq" THEN sanetize_sequence(data, 1, <<>>, sl)
    ELSE [ret |-> Some(data), data |-> data, states |-> sl, err |-> ""]

\* the loop over data.items() of a Mapping, from the i-th item on
sanetize_mapping(data, i, out_, sl) ==
    IF i > Len(data.keys)
    THEN [ret |-> Some([data EXCEPT !.vals = out_]), data |-> data, states |-> sl,
          err |-> ""]
    ELSE LET k == data.keys[i]
             v == data.vals[i]
         IN  IF k = PL_SAMPLERS
             THEN IF v.id = None
                  THEN [ret |-> None, data |-> data, states |-> sl, err |-> "KeyError"]
                  ELSE LET popped == [data EXCEPT !.vals[i].id = None]
                           w == Last(v.id[1])
                       IN  IF \E name \in DOMAIN v.states : w \notin DOMAIN v.states[name]
                           THEN [ret |-> None, data |-> popped, states |-> sl,
                                 err |-> "KeyError"]
                           ELSE IF \A j \in 1 .. Len(data.keys) : data.keys[j] # "data"
                           THEN [ret |-> None, data |-> popped,
                                 states |-> Append(sl, extract(v, w)), err |-> "KeyError"]
                           ELSE [ret |-> Some(data.vals[CHOOSE j \in 1 .. Len(data.keys) :
                                                          data.keys[j] = "data"]),
                                 data |-> popped,
                                 states |-> Append(sl, extract(v, w)), err |-> ""]
             ELSE LET r == sanetize(v, sl)
                      data1 == [data EXCEPT !.vals[i] = r.data]
                  IN  IF r.err # ""
                      THEN [ret |-> None, data |-> data1, states |-> r.states,
                            err |-> r.err]
                      ELSE sanetize_mapping(data1, i + 1, Append(out_, r.ret[1]), r.states)

\* the loop over the items of a sequence-like value, from the i-th item on
sanetize_sequence(data, i, out_, sl) ==
    IF i > Len(data.items)
    THEN [ret |-> Some([data EXCEPT !.items = out_]), data |-> data, states |-> sl,
          err |-> ""]
    ELSE LET r == sanetize(data.items[i], sl)
             data1 == [data EXCEPT !.items[i] = r.data]
         IN  IF r.err # ""
             THEN [ret |-> None, data |-> data1, states |-> r.states, err |-> r.err]
             ELSE sanetize_sequence(data1, i + 1, Append(out_, r.ret[1]), r.states)

\* convert_batch_into_state_dict(batch)
convert_batch_into_state_dict(b) == sanetize(b, <<>>)

\* a batch has come out of the loader
InitStrip ==
    /\ N = 0
    /\ plan = NoDataset
    /\ ff = FFInit
    /\ gen = [pc |-> "none", pos |-> 0]
    /\ winfo = None
    /\ out = <<>>
    /\ op = NoOp
    /\ lastLoad = None
    /\ passes = 0
    /\ life = 0
    /\ snap = NoSnap
    /\ dl = NoIterator
    /\ wop = NoOp
    /\ captured = None
    /\ ds = [name \in Names |-> NoAttribute]
    /\ cap = CaptureInit
    /\ cop = NoOp
    /\ pipe = NoLoader
    /\ batch \in {Some(b) : b \in Batches}
    /\ conv = <<>>

\* convert_batch_into_state_dict(batch), called on the same batch object again
Convert ==
    LET r == convert_batch_into_state_dict(batch[1]) IN
    /\ Len(conv) < MaxCalls
    /\ batch' = Some(r.data)
    /\ conv' = Append(conv, [ret |-> r.ret, states |-> r.states, err |-> r.err,
                             before |-> batch[1]])
    /\ UNCHANGED <<ffVars, cycVars, capVars, pipe>>

NextStrip == Convert

SpecStrip == InitStrip /\ [][NextStrip]_vars

\* ------------------------------------------------ capture, then resume
\* the loader's collate function on a batch of the one item __next__ returned with
\* the samplers state_dict sd: every number becomes a tensor of one element
collate(data, sd) ==
    MapOf(<<"data", PL_SAMPLERS>>,
          <<Leaf(data),
            [t |-> "samplers", id |-> Some(<<sd["id"]>>),
             states |-> [k \in DOMAIN sd \ {"id"} |->
                           [w \in DOMAIN sd[k] |->
                              [current_iteration |-> <<sd[k][w].current_iteration>>]]]]>>)

\* the consumer keeps the state convert_batch_into_state_dict extracts from the
\* batch of the item it was just handed, in the first pass
CapKeep ==
    LET r == convert_batch_into_state_dict(collate(cop.data, cop.samplers)) IN
    /\ life = 0
    /\ ~snap.taken
    /\ cop.name = "next"
    /\ IF cop.name = "next" THEN ~cop.stop ELSE FALSE
    /\ snap' = [taken |-> TRUE, state |-> r.states[1], data |-> cop.data,
                j |-> cap.produced, winfo |-> winfo]
    /\ cop' = [name |-> "keep"]
    /\ UNCHANGED <<N, ff, gen, winfo, out, op, lastLoad, passes, life>>
    /\ UNCHANGED <<cycVars, plVars, plan, ds, cap>>

\* a fresh CaptureIterableDataset is constructed over an equivalent dataset, in a
\* process of the same worker id
CapConstruct ==
    /\ life = 0
    /\ snap.taken
    /\ life' = life + 1
    /\ cap' = CaptureInit
    /\ ds' = [name \in Names |-> NoAttribute]
    /\ cop' = [name |-> "construct"]
    /\ UNCHANGED <<N, ff, gen, winfo, out, op, lastLoad, passes, snap>>
    /\ UNCHANGED <<cycVars, plVars, plan>>

\* a first pass on one instance until the state of an item is kept; then a fresh
\* instance is restored from that state and iterated
NextResume ==
    \/ life = 0 /\ cap.passes = 0 /\ \E w \in Workers : Fork(w)
    \/ life = 0 /\ ~snap.taken /\ cap.passes = 0 /\ CapIter
    \/ life = 0 /\ ~snap.taken /\ CapNext
    \/ CapKeep
    \/ CapConstruct
    \/ life = 1 /\ cap.passes = 0 /\ CapLoad(snap.state)
    \/ life = 1 /\ cap.passes = 0 /\ cap.state_dict # None /\ CapIter
    \/ life = 1 /\ CapNext

SpecResume == InitCapture /\ [][NextResume]_vars

\* ------------------------------------------------------------------ claims
\* the batch multiplier state_dict applies: 1 when none (or 0) is configured
Multiplier(bs) == IF bs # None /\ bs[1] # 0 THEN bs[1] ELSE 1

\* A fresh tracker (worker id 0) was restored, before its first pass, from the state
\* another tracker (worker id 0) gave after delivering snap.delivered < N items, and
\* has now run one full pass.
RestoredPassDone ==
    /\ life = 1 /\ snap.taken /\ snap.override = None
    /\ worker_id(snap.winfo) = 0
    /\ snap.delivered < N
    /\ lastLoad # None /\ lastLoad[1].passes = 0 /\ worker_id(lastLoad[1].winfo) = 0
    /\ worker_id(winfo) = 0
    /\ passes = 1 /\ gen.pc = "done"

\* C1 as stated: after capturing state at k delivered items and restoring it on a
\* fresh tracker, one full pass delivers exactly the items at positions k..N-1.
C1_FastForwardAsStated ==
    RestoredPassDone => out = ItemsFrom(snap.delivered, N)

\* C1 (amended): the full pass of the restored tracker delivers exactly the items at
\* positions k*m..N-1 in order, m being the batch multiplier configured on the
\* tracker whose state was taken (1 when none): positions k..N-1 when m = 1.
C1_FastForward ==
    RestoredPassDone =>
        out = ItemsFrom(snap.delivered * Multiplier(snap.batch_size), N)

\* C1 witness: no multiplier, one of three items delivered before the capture, the
\* restored pass has delivered the other two.
C1_Witness ==
    /\ RestoredPassDone
    /\ snap.batch_size = None /\ snap.delivered = 1 /\ N = 3
    /\ out = <<Item(1), Item(2)>>

\* C2: a state of two or more workers loaded before the worker identity is known is
\* applied by the copy iterating under worker id w on its first pass; stated for an
\* entry of w with a positive count and a producer that has items: the pass
\* delivers exactly the items at positions >= state[w].current_iteration, and the
\* cache is cleared during the pass.
C2_DeferredRestore ==
    (/\ lastLoad # None
     /\ Cardinality(DOMAIN lastLoad[1].state) >= 2
     /\ ~lastLoad[1].workers_initialized
     /\ lastLoad[1].winfo = None /\ lastLoad[1].passes = 0
     /\ winfo # None /\ winfo[1] \in DOMAIN lastLoad[1].state
     /\ lastLoad[1].state[winfo[1]].current_iteration > 0
     /\ N >= 1 /\ passes = 1 /\ gen.pc = "done")
    => /\ out = ItemsFrom(lastLoad[1].state[winfo[1]].current_iteration, N)
       /\ ff.cached_state_dict = None

\* C3: once a pass has run until the wrapped producer is exhausted, the counter is
\* 0 and the tracker is not restarting.
C3_ExhaustionClean ==
    gen.pc = "done" => (ff.current_iteration = 0 /\ ~ff.restarting)

\* A fresh tracker has just been handed, as its first call, the state another
\* tracker reported without override count under the same worker id.
FreshRestored ==
    /\ life = 1 /\ snap.taken /\ snap.override = None
    /\ op.name = "load_state_dict"
    /\ passes = 0
    /\ worker_id(winfo) = worker_id(snap.winfo)

\* C6 as stated: the restored counter equals the counter c held when state_dict()
\* was called, and restarting holds iff c > 0.
C6_RoundTripAsStated ==
    FreshRestored =>
        /\ ff.current_iteration = snap.counter
        /\ ff.restarting = (snap.counter > 0)

\* C6 (amended): the restored counter equals the reported count, c * m with m the
\* batch multiplier of the tracker whose state was taken (c itself when none is
\* configured), and restarting holds iff c > 0.
C6_RoundTrip ==
    FreshRestored =>
        /\ op.err = ""
        /\ ff.current_iteration = snap.counter * Multiplier(snap.batch_size)
        /\ ff.restarting = (snap.counter > 0)
        /\ (snap.batch_size = None => ff.current_iteration = snap.counter)

\* C6 witness: a counter of 2 reported by worker 1 without multiplier is restored.
C6_Witness ==
    /\ FreshRestored
    /\ snap.counter = 2 /\ snap.batch_size = None /\ winfo = Some(1)
    /\ ff.current_iteration = 2 /\ ff.restarting

\* what state_dict must report for counter c, batch size bs and override count b
Reported(c, bs, b) == (IF b # None THEN b[1] ELSE c) * Multiplier(bs)

\* C8: state_dict reports, under the current worker id, the counter (or the override
\* count when one is given) times the configured batch multiplier, unscaled when
\* none is configured, and changes neither counter, restarting flag nor cache.
C8_BatchScalingValue ==
    op.name = "state_dict" =>
        op.ret = (worker_id(winfo) :>
                    [current_iteration |->
                        Reported(ff.current_iteration, ff.dataloader_batch_size,
                                 op.num_batches_processed)])

C8_BatchScaling ==
    /\ []C8_BatchScalingValue
    /\ [][op'.name = "state_dict" => ff' = ff]_vars

\* C8 witness: batch size 2, counter 1, override 3 under worker id 1 reports 6.
C8_Witness ==
    /\ op.name = "state_dict"
    /\ ff.dataloader_batch_size = Some(2) /\ ff.current_iteration = 1
    /\ op.num_batches_processed = Some(3) /\ winfo = Some(1)
    /\ op.ret = (1 :> [current_iteration |-> 6])

\* C4: cycle_to_next_worker applied with the state fetch_previous_worker_state_dict
\* captured at cursor position p (n >= 2 workers), on a cursor of a same-sized
\* pipeline, triggers the reset with the cursor about to return p.
C4_RoundTrip ==
    (/\ wop.name = "cycle" /\ wop.err = "" /\ dl.multi /\ dl.num_workers >= 2
     /\ captured # None /\ captured[1].multi
     /\ wop.target.num_workers = captured[1].entry.num_workers
     /\ wop.target.previous_worker = captured[1].entry.previous_worker
     /\ dl.last_reset # None)
    => dl.last_reset[1].cursor = captured[1].next

\* C5 as stated: on a live multi-worker iterator with one worker, the captured
\* previous_worker is None, and cycle_to_next_worker with such a state ends without
\* error and leaves the cursor where it was.
C5_SingleWorkerAsStated ==
    /\ (wop.name = "fetch" /\ wop.before.multi /\ wop.before.num_workers = 1)
        => wop.entry.previous_worker = None
    /\ (/\ wop.name = "cycle" /\ wop.before.multi /\ wop.before.num_workers = 1
        /\ wop.target.num_workers = 1 /\ wop.target.previous_worker = None)
        => (wop.err = "" /\ dl.cursor = wop.before.cursor)

\* C5 (amended): on a live multi-worker iterator with one worker, the captured
\* previous_worker is 0 and the capture leaves the cursor where it was;
\* cycle_to_next_worker with that state leaves the cursor where it was, and ends
\* without error having triggered the reset once when the state carries the
\* "loader" entry the reset reads, with a KeyError and no reset when it does not.
C5_SingleWorker ==
    /\ (wop.name = "fetch" /\ wop.before.multi /\ wop.before.num_workers = 1)
        => /\ wop.entry = [num_workers |-> 1, previous_worker |-> Some(0)]
           /\ dl.cursor = wop.before.cursor
    /\ (/\ wop.name = "cycle" /\ wop.before.multi /\ wop.before.num_workers = 1
        /\ wop.target.num_workers = 1 /\ wop.target.previous_worker = Some(0))
        => /\ dl.cursor = wop.before.cursor
           /\ wop.target.loader =>
                (/\ wop.err = "" /\ dl.resets = wop.before.resets + 1
                 /\ dl.last_reset = Some([first_iter |-> TRUE, cursor |-> dl.cursor]))
           /\ ~wop.target.loader => (wop.err = "KeyError" /\ dl.resets = wop.before.resets)

\* C5 witness: the state captured on a one-worker iterator, completed with its
\* loader, has been applied and the reset triggered.
C5_Witness ==
    /\ wop.name = "cycle" /\ wop.before.multi /\ wop.before.num_workers = 1
    /\ captured # None /\ captured[1].multi
    /\ captured[1].entry = [num_workers |-> 1, previous_worker |-> Some(0)]
    /\ wop.target = [num_workers |-> 1, previous_worker |-> Some(0), loader |-> TRUE]
    /\ wop.err = "" /\ dl.resets = 1

\* C7: cycle_to_next_worker called with a state whose num_workers differs from the
\* iterator's aborts with an error, and neither the cursor has been advanced nor
\* the reset entry point triggered.
C7_MismatchFatal ==
    (wop.name = "cycle" /\ wop.target.num_workers # wop.before.num_workers)
    => /\ wop.err = "AssertionError"
       /\ dl.cursor = wop.before.cursor
       /\ dl.resets = wop.before.resets
       /\ dl.last_reset = wop.before.last_reset

\* C7 witness: a three-worker iterator with its cursor at 2 is handed a complete
\* state of two workers.
C7_Witness ==
    /\ wop.name = "cycle" /\ wop.before.multi /\ wop.before.num_workers = 3
    /\ wop.before.cursor = 2
    /\ wop.target = [num_workers |-> 2, previous_worker |-> Some(1), loader |-> TRUE]
    /\ wop.err = "AssertionError" /\ dl.cursor = 2


\* what load_state_dict(sd) leaves on a tracker made for attribute name in the
\* process wi: the count of this worker, restarting iff it is positive
Restored(t, sd, name, wi) ==
    /\ name \in DOMAIN sd
    /\ worker_id(wi) \in DOMAIN sd[name]
    /\ t.ff.current_iteration = sd[name][worker_id(wi)].current_iteration
    /\ t.ff.restarting = (sd[name][worker_id(wi)].current_iteration > 0)

\* the state sd has a count of this worker for every attribute discovery wraps
Fits(sd, wi) ==
    \A name \in Names : plan[name] \in {"sampler_gen", "legacy"} =>
        name \in DOMAIN sd /\ worker_id(wi) \in DOMAIN sd[name]

\* C9: after load_state_dict(state), with state holding a count for every wrapped
\* attribute, the next __iter__ has applied state[name] to every tracker held
\* under an attribute name and has left the stored state cleared, whether or not
\* the instance was iterated before
C9_RestoreAtNextIter ==
    (cop.name = "iter" /\ cop.loaded # None /\ Fits(cop.loaded[1], winfo)) =>
        /\ cap.state_dict = None
        /\ \A name \in DOMAIN cap.samplers[1] :
              Restored(cap.samplers[1][name], cop.loaded[1], name, winfo)

\* C10: every item of __next__ carries a snapshot whose keys are "id" and the
\* wrapped attribute names, the same keys as the first item carried
C10_FixedKeys ==
    (cop.name = "next" /\ ~cop.stop) =>
        /\ DOMAIN cop.samplers = {"id"} \cup DOMAIN cap.samplers[1]
        /\ cap.first_keys # None
        /\ DOMAIN cop.samplers = cap.first_keys[1]

\* C10: once _wrap_generator_samplers has run, no later step (a further __iter__
\* included) changes the wrapped attribute names or the tracker objects held in
\* samplers, and every item's snapshot has the same key set
C10_IdempotentDiscovery ==
    /\ []C10_FixedKeys
    /\ [][cap.samplers # None =>
            /\ cap'.samplers # None
            /\ DOMAIN cap'.samplers[1] = DOMAIN cap.samplers[1]
            /\ \A name \in DOMAIN cap.samplers[1] :
                  cap'.samplers[1][name].oid = cap.samplers[1][name].oid]_vars

\* C10 witness: an item produced in the second pass of an instance whose two
\* attributes are both wrapped
C10_Witness ==
    /\ cap.passes = 2
    /\ cop.name = "next"
    /\ ~cop.stop
    /\ DOMAIN cop.samplers = {"id", "a", "b"}
    /\ Len(cop.data) = 2

\* neither the sampler nor the batch sampler of the loader is a FastForwardSampler
NonTrackable == pipe # NoLoader /\ find_fast_forward_samplers(pipe) = None

\* C11: on a loader without a FastForwardSampler, dataloader_load_state_dict
\* raises nothing whatever the state list
C11_NoError ==
    (op.name = "dataloader_load_state_dict" /\ NonTrackable) => op.err = ""

\* C11: on a loader without a FastForwardSampler, dataloader_load_state_dict
\* returns without error for every state list and changes nothing: not the
\* tracker, its generator, the loader, its iterator or the capture layer
C11_SilentNoOp ==
    /\ []C11_NoError
    /\ [][(op'.name = "dataloader_load_state_dict" /\ op' # op /\ NonTrackable) =>
            /\ <<N, ff, gen, winfo, out, lastLoad, passes, life, snap>>' =
               <<N, ff, gen, winfo, out, lastLoad, passes, life, snap>>
            /\ <<cycVars, capVars, plVars>>' = <<cycVars, capVars, plVars>>]_vars

\* C11 witness: the call was made with an empty list on a loader whose sampler and
\* batch sampler are plain samplers
C11_Witness ==
    /\ op.name = "dataloader_load_state_dict"
    /\ pipe = [sampler |-> "Sampler", batch_sampler |-> "Sampler"]
    /\ op.state_list = <<>>
    /\ op.err = ""

\* the tracker's generator has run its loop body at least once in this pass
HasIterated == gen.pc \in {"normal", "restart"} \/ (gen.pc = "done" /\ N >= 1)

\* C12: whenever the cached restore state is non-empty (here: holds a positive
\* count for some worker) the tracker is flagged restarting, and once the tracker
\* has iterated under a worker id that the cache holds, the cache is empty again
C12_CachedRestore ==
    /\ (/\ ff.cached_state_dict # None
        /\ \E w \in DOMAIN ff.cached_state_dict[1] :
               ff.cached_state_dict[1][w].current_iteration > 0) => ff.restarting
    /\ (HasIterated /\ ff.cached_state_dict # None) =>
          worker_id(winfo) \notin DOMAIN ff.cached_state_dict[1]

\* C13: a load_state_dict call that finds the entry of the current worker id
\* either (workers_initialized false, more than one entry) stores the state in the
\* cache, sets restarting iff that entry's count is positive and leaves the counter,
\* or (otherwise) overwrites the counter with that entry's count, sets restarting
\* iff it is positive and leaves the cache
C13_TwoPaths ==
    [][(lastLoad' # lastLoad /\ op'.name = "load_state_dict" /\ op'.err = "") =>
         LET sd == lastLoad'[1].state
             c == sd[worker_id(winfo)].current_iteration
         IN  /\ ff'.restarting = (c > 0)
             /\ ff'.dataloader_batch_size = ff.dataloader_batch_size
             /\ IF ~lastLoad'[1].workers_initialized /\ Cardinality(DOMAIN sd) > 1
                THEN /\ ff'.cached_state_dict = Some(sd)
                     /\ ff'.current_iteration = ff.current_iteration
                ELSE /\ ff'.current_iteration = c
                     /\ ff'.cached_state_dict = ff.cached_state_dict]_vars

\* C13 witness: mid-pass, with a cached state waiting and the counter positive, a
\* second load with workers_initialized true has overwritten the counter with a
\* different count and left the cache
C13_Witness ==
    /\ op.name = "load_state_dict" /\ op.err = ""
    /\ lastLoad # None /\ lastLoad[1].count = 2 /\ lastLoad[1].workers_initialized
    /\ ff.cached_state_dict # None
    /\ Len(out) >= 2
    /\ ff.current_iteration = 1

\* the one load_state_dict call made on the tracker applied a count at once: it
\* did not take the caching path and it found the entry of the worker id it saw
LoadApplied ==
    /\ lastLoad # None
    /\ lastLoad[1].workers_initialized \/ Cardinality(DOMAIN lastLoad[1].state) <= 1
    /\ worker_id(lastLoad[1].winfo) \in DOMAIN lastLoad[1].state

\* the count the first pass of the tracker starts from
StartCount ==
    IF lastLoad = None THEN 0
    ELSE lastLoad[1].state[worker_id(lastLoad[1].winfo)].current_iteration

\* a first pass of the tracker is running, on a tracker that is fresh or was
\* restored to a count before the pass
FirstPassRunning ==
    /\ passes = 1
    /\ gen.pc \in {"created", "normal", "restart"}
    /\ lastLoad = None \/ LoadApplied

\* C14 as stated: in a pass started on a fresh tracker or after a restore to count
\* k, after j delivered items the counter is k + j, the delivered items are the
\* producer's items at positions k .. k+j-1, and state_dict() reports k + j
C14_AbsolutePositionAsStated ==
    FirstPassRunning
    => /\ ff.current_iteration = StartCount + Len(out)
       /\ out = [j \in 1 .. Len(out) |-> Item(StartCount + j - 1)]
       /\ state_dict(ff, None, winfo)[worker_id(winfo)].current_iteration =
             StartCount + Len(out)

\* C14 (amended): while such a pass is running the counter is k + j, the delivered
\* items are the producer's items at positions k .. k+j-1 in order, and
\* state_dict() reports (k + j) * m, m being the batch multiplier set with setup
\* (1 when none is set)
C14_AbsolutePosition ==
    FirstPassRunning
    => /\ ff.current_iteration = StartCount + Len(out)
       /\ out = [j \in 1 .. Len(out) |-> Item(StartCount + j - 1)]
       /\ state_dict(ff, None, winfo)[worker_id(winfo)].current_iteration =
             (StartCount + Len(out)) * Multiplier(ff.dataloader_batch_size)
       /\ op.name = "state_dict" =>
             op.ret[worker_id(winfo)].current_iteration =
                 (StartCount + Len(out)) * Multiplier(ff.dataloader_batch_size)

\* C14 witness: a tracker set up with batch size 2 and restored to count 1 has
\* delivered two items of its pass and is asked for its state
C14_Witness ==
    /\ passes = 1 /\ gen.pc = "restart"
    /\ LoadApplied /\ StartCount = 1
    /\ Len(out) = 2
    /\ ff.dataloader_batch_size = Some(2)
    /\ op.name = "state_dict"

\* C15 as stated: on a live multi-worker iterator of n >= 1 workers,
\* fetch_previous_worker_state_dict advances the cursor exactly n steps and leaves
\* it about to return the index it was about to return before
C15_NetNeutralAsStated ==
    (wop.name = "fetch" /\ wop.before.multi)
    => /\ wop.steps = wop.before.num_workers
       /\ dl.cursor = wop.before.cursor

\* C15 (amended): it advances the cursor exactly n steps when n >= 2 and exactly 2
\* steps when n = 1, and leaves it about to return the index it was about to
\* return before
C15_NetNeutral ==
    (wop.name = "fetch" /\ wop.before.multi)
    => /\ wop.steps = IF wop.before.num_workers = 1 THEN 2 ELSE wop.before.num_workers
       /\ dl.cursor = wop.before.cursor

\* C15 witness: the capture was made on a three-worker iterator about to ask
\* worker 2
C15_Witness ==
    /\ wop.name = "fetch" /\ wop.before.multi
    /\ wop.before.num_workers = 3 /\ wop.before.cursor = 2
    /\ wop.steps = 3

\* C16: the cycle state fetch_previous_worker_state_dict appends has
\* previous_worker None on an iterator that is no live multi-worker iterator, and
\* otherwise previous_worker = (p - 1) mod num_workers, within 0 .. num_workers-1,
\* p being the index the cursor was about to return when the call started
C16_PreviousWorker ==
    wop.name = "fetch" =>
        /\ wop.entry.num_workers = wop.before.num_workers
        /\ IF wop.before.multi
           THEN /\ wop.entry.previous_worker # None
                /\ wop.entry.previous_worker[1] \in 0 .. (wop.before.num_workers - 1)
                /\ wop.entry.previous_worker[1] =
                      (wop.before.cursor - 1) % wop.before.num_workers
                /\ dl.cursor = wop.before.cursor
           ELSE wop.entry.previous_worker = None

\* C16 witness: the capture was made on a four-worker iterator about to ask
\* worker 0, and recorded worker 3
C16_Witness ==
    /\ wop.name = "fetch" /\ wop.before.multi
    /\ wop.before.num_workers = 4 /\ wop.before.cursor = 0
    /\ wop.entry.previous_worker = Some(3)

\* cycle_to_next_worker was called on a live multi-worker iterator with a state of
\* the iterator's worker count and a previous_worker within it
CycledToWorker ==
    /\ wop.name = "cycle" /\ wop.before.multi
    /\ wop.target.num_workers = wop.before.num_workers
    /\ wop.target.previous_worker # None
    /\ wop.target.previous_worker[1] < wop.before.num_workers

\* calls of next until a cursor about to return c, over n workers, has returned 0
StepsToZero(c, n) == IF c = 0 THEN 1 ELSE n - c + 1

\* C17 as stated: the call advances the cursor until it has returned 0, then w - 1
\* further steps, then triggers the reset once with first_iter true, at a cursor
\* position that depends on w and n only; an iterator that is no live multi-worker
\* iterator is left untouched
C17_RewindThenResetAsStated ==
    /\ (CycledToWorker /\ wop.target.loader) =>
          LET n == wop.before.num_workers
              w == wop.target.previous_worker[1]
          IN  /\ wop.err = ""
              /\ wop.steps = StepsToZero(wop.before.cursor, n) + (w - 1)
              /\ dl.resets = wop.before.resets + 1
              /\ dl.last_reset = Some([first_iter |-> TRUE, cursor |-> (1 + (w - 1)) % n])
    /\ (wop.name = "cycle" /\ ~wop.before.multi /\ wop.err = "") => dl = wop.before

\* C17 (amended): the call advances the cursor until it has returned 0, then
\* w - 1 further steps when w >= 1 and none when w = 0; when the state carries the
\* "loader" entry it then triggers the reset once with first_iter true, at a
\* cursor position that depends on w and n only, and when it does not it raises
\* KeyError after the rotation and triggers no reset; an iterator that is no live
\* multi-worker iterator is left untouched
C17_RewindThenReset ==
    /\ CycledToWorker =>
          LET n == wop.before.num_workers
              w == wop.target.previous_worker[1]
              k == IF w >= 1 THEN w - 1 ELSE 0
          IN  /\ wop.steps = StepsToZero(wop.before.cursor, n) + k
              /\ dl.cursor = (1 + k) % n
              /\ wop.target.loader =>
                    /\ wop.err = ""
                    /\ dl.resets = wop.before.resets + 1
                    /\ dl.last_reset = Some([first_iter |-> TRUE, cursor |-> (1 + k) % n])
              /\ ~wop.target.loader =>
                    /\ wop.err = "KeyError"
                    /\ dl.resets = wop.before.resets
                    /\ dl.last_reset = wop.before.last_reset
    /\ (wop.name = "cycle" /\ ~wop.before.multi
        /\ wop.target.num_workers = wop.before.num_workers)
          => (wop.err = "" /\ dl = wop.before)

\* C17 witness: a four-worker iterator about to ask worker 2 was cycled to
\* previous_worker 3 and reset with its cursor about to return 3
C17_Witness ==
    /\ CycledToWorker /\ wop.target.loader
    /\ wop.before.num_workers = 4 /\ wop.before.cursor = 2
    /\ wop.target.previous_worker = Some(3)
    /\ wop.steps = 5
    /\ dl.last_reset = Some([first_iter |-> TRUE, cursor |-> 3])

\* the smaller of two numbers
Min(a, b) == IF a <= b THEN a ELSE b

\* C18: in the first pass after a restore to count k over a producer of N items,
\* the items are pulled from the producer one by one in order (gen.pos counts the
\* pulls); while the pass runs, the pulls made are the k dropped items and the
\* delivered ones, and the counter has moved by the delivered ones only; when the
\* pass has ended every item has been pulled once, the delivered items are those
\* at positions min(k, N) .. N-1, and the counter is 0
C18_Reconsume ==
    (passes = 1 /\ LoadApplied) =>
        /\ gen.pc \in {"normal", "restart"} =>
              /\ gen.pos = StartCount + Len(out)
              /\ ff.current_iteration = StartCount + Len(out)
              /\ out = ItemsFrom(StartCount, gen.pos)
        /\ gen.pc = "done" =>
              /\ gen.pos = N
              /\ out = ItemsFrom(Min(StartCount, N), N)
              /\ Len(out) = N - Min(StartCount, N)
              /\ ff.current_iteration = 0

\* C18 witness: a tracker restored to a count of 2 or more has ended its pass over
\* a producer of two items without delivering any
C18_Witness ==
    /\ passes = 1 /\ LoadApplied /\ gen.pc = "done"
    /\ N = 2 /\ StartCount >= N
    /\ gen.pos = 2 /\ out = <<>>

\* the value holds a samplers state_dict somewhere
RECURSIVE HasMarker(_)
HasMarker(d) ==
    IF d.t = "map"
    THEN \E i \in 1 .. Len(d.keys) : d.keys[i] = PL_SAMPLERS \/ HasMarker(d.vals[i])
    ELSE IF d.t = "seq" THEN \E i \in 1 .. Len(d.items) : HasMarker(d.items[i])
    ELSE FALSE

\* C19: convert_batch_into_state_dict leaves the batch it is given as it was, and
\* a second call on the same batch holding a marker returns the same payload and
\* the same extracted states as the first
C19_StrippingPure ==
    /\ (Len(conv) >= 1 /\ HasMarker(conv[Len(conv)].before)) =>
          batch[1] = conv[Len(conv)].before
    /\ (Len(conv) = 2 /\ HasMarker(conv[1].before)) =>
          /\ conv[2].err = conv[1].err
          /\ conv[2].ret = conv[1].ret
          /\ conv[2].states = conv[1].states

\* the dataset has one iterator attribute, which comes from a sampler, and draws
\* one item from it per item it produces
SingleTracked(name) ==
    /\ plan[name] \in {"sampler_gen", "legacy"}
    /\ \A other \in Names \ {name} : plan[other] = "absent"

\* C20: over a dataset with one tracked sub-producer, the snapshot attached to the
\* j-th item of a first pass records current_iteration = j; a fresh instance
\* restored from the snapshot of the j-th item produces as its i-th item the
\* dataset's item j + i (position j + i - 1), with a snapshot recording j + i, and
\* ends after the N - j items that followed the j-th
C20_ResumableSnapshots ==
    \A name \in Names : SingleTracked(name) =>
        /\ (life = 0 /\ cop.name = "next" /\ ~cop.stop) =>
              /\ cop.data = <<Item(cap.produced - 1)>>
              /\ cop.samplers[name] =
                    (worker_id(winfo) :> [current_iteration |-> cap.produced])
        /\ snap.taken =>
              snap.state = (name :> (worker_id(snap.winfo) :>
                                        [current_iteration |-> snap.j]))
        /\ (life = 1 /\ cop.name = "iter") => cop.err = ""
        /\ (life = 1 /\ cop.name = "next" /\ ~cop.stop) =>
              /\ cop.data = <<Item(snap.j + cap.produced - 1)>>
              /\ cop.samplers[name] =
                    (worker_id(winfo) :> [current_iteration |-> snap.j + cap.produced])
        /\ (life = 1 /\ cop.name = "next" /\ cop.stop) => cap.produced = N - snap.j

\* C20 witness: the snapshot of the first of three items was kept in worker 1; the
\* fresh instance restored from it has produced the third item
C20_Witness ==
    /\ SingleTracked("a")
    /\ N = 3 /\ winfo = Some(1)
    /\ life = 1 /\ snap.j = 1
    /\ cop.name = "next" /\ ~cop.stop
    /\ cap.produced = 2
    /\ cop.data = <<Item(2)>>
====
